---------------------------- MODULE Spec2Model ----------------------------
(***************************************************************************)
(* A model of finanzen_fundamentals/stocks.py: the public retrieval        *)
(* operations get_fundamentals, get_estimates and get_price, the nested    *)
(* table parser _parse_table, the two numeric normalizations of a table    *)
(* cell, and the row loop of search_stock_lxml.                            *)
(*                                                                         *)
(* A text (a Python str) is a sequence of one-character strings, so that   *)
(* lower(), upper(), endswith(), re.sub() and float() are computed         *)
(* character by character.  A fixed literal of the source (a URL prefix)   *)
(* is one element of such a sequence.                                      *)
(*                                                                         *)
(* A float is modelled as a fixed-point number [m, e] standing for         *)
(* m * 10^(-e), with trailing zeros of the fraction removed, so that two   *)
(* texts denote the same number exactly when their values are equal.       *)
(***************************************************************************)
EXTENDS Integers, Sequences, FiniteSets, TLC

VARIABLES
    call,          \* the arguments of the public call made, or None
    soup,          \* the page the site served to the call (None before a fetch)
    requests,      \* the URLs requested over HTTP so far, in order
    extracted,     \* TRUE once a table or quote-box lookup ran on the soup
    outcome,       \* the value returned or the exception raised, or Pending
    text,          \* the text of one table cell
    fund_cell,     \* the cell normalized as _parse_table does
    est_cell,      \* the cell normalized as get_estimates does
    psoup,         \* the soup handed to _parse_table
    signaler,      \* the section name handed to _parse_table
    table_dict,    \* what _parse_table returned or raised, or Pending
    summary_table, \* search_stock_lxml: the rows the xpath found
    limit0,        \* search_stock_lxml: the limit argument as passed
    limit,         \* search_stock_lxml: the local variable limit
    df,            \* search_stock_lxml: the rows appended so far
    pos,           \* search_stock_lxml: index of the next row of the loop
    skip_first_element, \* search_stock_lxml: 0 until the first row is skipped
    spc            \* search_stock_lxml: "idle", "loop", "returned" or "raised"

vars == <<call, soup, requests, extracted, outcome, text, fund_cell, est_cell,
          psoup, signaler, table_dict, summary_table, limit0, limit, df, pos,
          skip_first_element, spc>>

callVars   == <<call, soup, requests, extracted, outcome>>
normVars   == <<text, fund_cell, est_cell>>
tableVars  == <<psoup, signaler, table_dict>>
searchVars == <<summary_table, limit0, limit, df, pos, skip_first_element, spc>>

-----------------------------------------------------------------------------
(* Bounds of the model *)

MaxSmallInt == 12      \* integer parts 0..MaxSmallInt of the generated numbers
MaxFracLen == 2        \* digits after the decimal comma of a generated number
MaxFracDigit == 2      \* fraction digits are drawn from 0..MaxFracDigit
MaxJunkLen == 3        \* length of the arbitrary cell texts
MaxRows == 2           \* data rows of a generated table
MaxSearchRows == 3     \* rows of a generated search result
MaxLimit == 4          \* the limit argument ranges over -1..MaxLimit

-----------------------------------------------------------------------------
(* Python values *)

None == [kind |-> "None"]
Pending == [kind |-> "pending"]
Raise(e) == [kind |-> "raise", exc |-> e]
PyDict(d) == [kind |-> "dict", items |-> d]
DataFrame(rows) == [kind |-> "dataframe", rows |-> rows]
Return(v) == [kind |-> "return", value |-> v]
Raised(o) == o.kind = "raise"
Returned(o) == o.kind = "return"

Min(a, b) == IF a <= b THEN a ELSE b

RECURSIVE Pow10(_)
Pow10(n) == IF n = 0 THEN 1 ELSE 10 * Pow10(n - 1)

\* xs[k:] of Python, k counted from 0
Drop(xs, k) == IF k >= Len(xs) THEN <<>> ELSE SubSeq(xs, k + 1, Len(xs))

\* a list comprehension [... for x in xs], given as a function on the indices
\* of xs: the list with each element computed once
List(f) == f \o <<>>

\* All sequences over S of length at most n
SeqsUpTo(S, n) == UNION {[1..k -> S] : k \in 0..n}

-----------------------------------------------------------------------------
(* Characters *)

DigitChars == <<"0", "1", "2", "3", "4", "5", "6", "7", "8", "9">>
IsDigit(c) == \E i \in 1..10 : DigitChars[i] = c
DigitVal(c) == (CHOOSE i \in 1..10 : DigitChars[i] = c) - 1
DigitChar(d) == DigitChars[d + 1]

UpperChars ==
    <<"A", "B", "C", "D", "E", "F", "G", "H", "I", "J", "K", "L", "M", "N", "O", "P", "Q", "R", "S", "T", "U", "V", "W", "X", "Y", "Z">>
LowerChars ==
    <<"a", "b", "c", "d", "e", "f", "g", "h", "i", "j", "k", "l", "m", "n", "o", "p", "q", "r", "s", "t", "u", "v", "w", "x", "y", "z">>

LowerChar(c) ==
    IF \E i \in 1..Len(UpperChars) : UpperChars[i] = c
    THEN LowerChars[CHOOSE i \in 1..Len(UpperChars) : UpperChars[i] = c]
    ELSE c

UpperChar(c) ==
    IF \E i \in 1..Len(LowerChars) : LowerChars[i] = c
    THEN UpperChars[CHOOSE i \in 1..Len(LowerChars) : LowerChars[i] = c]
    ELSE c

\* str.lower() and str.upper()
Lower(s) == List([i \in DOMAIN s |-> LowerChar(s[i])])
Upper(s) == List([i \in DOMAIN s |-> UpperChar(s[i])])

\* str.endswith(suffix)
EndsWith(s, suffix) ==
    /\ Len(s) >= Len(suffix)
    /\ SubSeq(s, Len(s) - Len(suffix) + 1, Len(s)) = suffix

\* re.search(pattern, s) for a pattern without metacharacters: pattern occurs in s
Contains(s, pattern) ==
    \E i \in 0..(Len(s) - Len(pattern)) : SubSeq(s, i + 1, i + Len(pattern)) = pattern

\* re.match of "^" + pattern, pattern without metacharacters
StartsWith(s, pattern) ==
    /\ Len(s) >= Len(pattern)
    /\ SubSeq(s, 1, Len(pattern)) = pattern

-----------------------------------------------------------------------------
(* float(x) on the characters of the model: digits, ".", "-", " " and       *)
(* characters float() rejects.  Exponents, "inf", "nan" and "_" are not     *)
(* among the characters the cell texts are drawn from.                      *)

RECURSIVE StripLeft(_)
StripLeft(s) == IF s # <<>> /\ s[1] = " " THEN StripLeft(Tail(s)) ELSE s

RECURSIVE StripRight(_)
StripRight(s) ==
    IF s # <<>> /\ s[Len(s)] = " " THEN StripRight(SubSeq(s, 1, Len(s) - 1)) ELSE s

Strip(s) == StripRight(StripLeft(s))

RECURSIVE DigitsValue(_)
DigitsValue(ds) ==
    IF ds = <<>> THEN 0
    ELSE 10 * DigitsValue(SubSeq(ds, 1, Len(ds) - 1)) + DigitVal(ds[Len(ds)])

\* the fixed-point number m * 10^(-e) with trailing zeros of the fraction removed
RECURSIVE Float(_, _)
Float(m, e) ==
    IF e > 0 /\ m % 10 = 0 THEN Float(m \div 10, e - 1)
    ELSE [kind |-> "float", m |-> m, e |-> e]

ValueError == Raise("ValueError")

\* the digits before and after the decimal point at index point of body
\* (point = Len(body) + 1 when there is none): a number when every other
\* character is a digit and there is at least one digit
FloatDigits(body, point, neg) ==
    LET ip == SubSeq(body, 1, point - 1)
        fp == SubSeq(body, point + 1, Len(body))
    IN  IF /\ \A i \in 1..Len(body) : i = point \/ IsDigit(body[i])
           /\ Len(ip) + Len(fp) >= 1
        THEN Float((IF neg THEN -1 ELSE 1)
                       * (DigitsValue(ip) * Pow10(Len(fp)) + DigitsValue(fp)), Len(fp))
        ELSE ValueError

\* the text after the sign
FloatUnsigned(body, neg) ==
    LET dots == {i \in 1..Len(body) : body[i] = "."}
    IN  FloatDigits(body,
                    IF dots = {} THEN Len(body) + 1
                    ELSE CHOOSE i \in dots : \A j \in dots : i <= j,
                    neg)

\* the text without the surrounding whitespace
FloatStripped(s) ==
    IF s # <<>> /\ s[1] = "-" THEN FloatUnsigned(Tail(s), TRUE) ELSE FloatUnsigned(s, FALSE)

PyFloat(x) == FloatStripped(Strip(x))

-----------------------------------------------------------------------------
(* The numeric normalization of one table cell *)

\* re.sub(r"\.", "", x)
RemoveDots(x) == SelectSeq(x, LAMBDA c : c # ".")
\* re.sub(",", ".", x)
CommaToDot(x) == List([i \in DOMAIN x |-> IF x[i] = "," THEN "." ELSE x[i]])
\* re.sub(r"[^\d,]", "", x)
KeepDigitsAndComma(x) == SelectSeq(x, LAMBDA c : IsDigit(c) \/ c = ",")

Dash == <<"-">>
LessThanZero == <<"<", " ", "0", " ", "*">>

\* _parse_table, lines 58-60, on one cell text
parse_table_cell(x) ==
    LET y == CommaToDot(RemoveDots(x))
    IN  IF y \notin {Dash, LessThanZero} THEN PyFloat(y) ELSE None

\* get_estimates, lines 149-152, on one cell text
get_estimates_cell(x) ==
    IF x # Dash THEN PyFloat(CommaToDot(KeepDigitsAndComma(x))) ELSE None

-----------------------------------------------------------------------------
(* The cell texts the normalizations are applied to *)

\* the digits of a natural number, most significant first
RECURSIVE DigitsOf(_)
DigitsOf(n) ==
    IF n < 10 THEN <<DigitChar(n)>> ELSE DigitsOf(n \div 10) \o <<DigitChar(n % 10)>>

\* digits with "." before every group of three digits counted from the right
RECURSIVE Grouped(_)
Grouped(ds) ==
    IF Len(ds) <= 3 THEN ds
    ELSE Grouped(SubSeq(ds, 1, Len(ds) - 3)) \o <<".">> \o SubSeq(ds, Len(ds) - 2, Len(ds))

\* the German notation of the number with integer part n and fraction digits fd
GermanText(neg, n, fd) ==
    (IF neg THEN <<"-">> ELSE <<>>) \o Grouped(DigitsOf(n))
        \o (IF fd = <<>> THEN <<>> ELSE <<",">> \o List([i \in DOMAIN fd |-> DigitChar(fd[i])]))

\* the number that notation stands for
GermanValue(neg, n, fd) ==
    LET mag == n * Pow10(Len(fd)) + DigitsValue(List([i \in DOMAIN fd |-> DigitChar(fd[i])]))
    IN  Float(IF neg THEN -mag ELSE mag, Len(fd))

ThousandSamples == {1, 12, 1000, 1234}
GroupSamples == {0, 56, 999}
IntParts ==
    (0..MaxSmallInt) \cup {t * 1000 + r : t \in ThousandSamples, r \in GroupSamples}
FracParts == SeqsUpTo(0..MaxFracDigit, MaxFracLen)

GermanNumbers ==
    {GermanText(neg, n, fd) : neg \in BOOLEAN, n \in IntParts, fd \in FracParts}

JunkChars == {"0", "1", ".", ",", "-", " ", "<", "*", "a"}
JunkTexts == SeqsUpTo(JunkChars, MaxJunkLen)

CellTexts == GermanNumbers \cup JunkTexts \cup {Dash, LessThanZero}

-----------------------------------------------------------------------------
(* SpecNorm: one cell text, normalized both ways *)

IdleCall ==
    /\ call = None
    /\ soup = None
    /\ requests = <<>>
    /\ extracted = FALSE
    /\ outcome = Pending

IdleNorm ==
    /\ text = <<>>
    /\ fund_cell = Pending
    /\ est_cell = Pending

IdleTable ==
    /\ psoup = None
    /\ signaler = <<>>
    /\ table_dict = Pending

IdleSearch ==
    /\ summary_table = <<>>
    /\ limit0 = 0
    /\ limit = 0
    /\ df = <<>>
    /\ pos = 0
    /\ skip_first_element = 0
    /\ spc = "idle"

InitNorm ==
    /\ text \in CellTexts
    /\ fund_cell = Pending
    /\ est_cell = Pending
    /\ IdleCall /\ IdleTable /\ IdleSearch

NormalizeFundamentals ==
    /\ fund_cell = Pending
    /\ fund_cell' = parse_table_cell(text)
    /\ UNCHANGED <<text, est_cell, callVars, tableVars, searchVars>>

NormalizeEstimates ==
    /\ est_cell = Pending
    /\ est_cell' = get_estimates_cell(text)
    /\ UNCHANGED <<text, fund_cell, callVars, tableVars, searchVars>>

NextNorm == NormalizeFundamentals \/ NormalizeEstimates

SpecNorm == InitNorm /\ [][NextNorm]_vars

-----------------------------------------------------------------------------
(* Claims about the normalization of a cell, checked under SpecNorm *)

AbsentTokens == {Dash, LessThanZero}

\* C2 (as claimed): both normalizations map the cell texts "-" and "< 0 *" to
\* None: never to a number such as 0.0 and never to an exception.
C2_AbsentTokensBecomeNone ==
    text \in AbsentTokens =>
        /\ fund_cell # Pending => fund_cell = None
        /\ est_cell # Pending => est_cell = None

\* C2, the part that holds: _parse_table maps "-" and "< 0 *" to None, and
\* get_estimates maps "-" to None.
C2_ParseTablePart ==
    /\ (text \in AbsentTokens /\ fund_cell # Pending) => fund_cell = None
    /\ (text = Dash /\ est_cell # Pending) => est_cell = None

\* C8 (as claimed): for a cell text in German notation ("." between groups of
\* three digits, "," before the fraction, an optional leading "-"), both
\* normalizations yield the number the text stands for.
C8_GermanNumberPreserved ==
    \A neg \in BOOLEAN, n \in IntParts, fd \in FracParts :
        text = GermanText(neg, n, fd) =>
            /\ fund_cell # Pending => fund_cell = GermanValue(neg, n, fd)
            /\ est_cell # Pending => est_cell = GermanValue(neg, n, fd)

\* C8, the part that holds: _parse_table preserves the number, and
\* get_estimates preserves its magnitude (the sign is removed with the other
\* characters that are neither digits nor commas).
C8_ParseTablePart ==
    \A neg \in BOOLEAN, n \in IntParts, fd \in FracParts :
        text = GermanText(neg, n, fd) =>
            /\ fund_cell # Pending => fund_cell = GermanValue(neg, n, fd)
            /\ est_cell # Pending => est_cell = GermanValue(FALSE, n, fd)

-----------------------------------------------------------------------------
(* The soup of a fundamentals page and _parse_table                        *)
(*                                                                         *)
(* soup.h2s are the page's h2 elements in document order; each carries its *)
(* text and, for its parent element, the texts of the th cells and the tr  *)
(* rows found below it.  A row is the sequence of its td cells, each with  *)
(* its text and whether it has class "font-bold".                          *)

AttributeError == Raise("AttributeError")
TypeError == Raise("TypeError")
IndexError == Raise("IndexError")

\* int(x) on the characters of the model
IntDigits(body, neg) ==
    IF body # <<>> /\ \A i \in 1..Len(body) : IsDigit(body[i])
    THEN Return((IF neg THEN -1 ELSE 1) * DigitsValue(body))
    ELSE ValueError

IntStripped(s) ==
    IF s # <<>> /\ s[1] = "-" THEN IntDigits(Tail(s), TRUE) ELSE IntDigits(s, FALSE)

PyInt(x) == IntStripped(Strip(x))

\* the first element of xs whose index is in hits, as a sequence of 0 or 1
\* elements (what find returns: an element or None)
First(xs, hits) ==
    IF hits = {} THEN <<>>
    ELSE <<xs[CHOOSE i \in hits : \A j \in hits : i <= j]>>

\* soup.find("h2", text=re.compile(signaler))
FindH2(s, sig) == First(s.h2s, {i \in DOMAIN s.h2s : Contains(s.h2s[i].h2, sig)})

\* dict(zip(keys, vals)): pairs up to the shorter length, a later pair wins
RECURSIVE DictZip(_, _)
DictZip(keys, vals) ==
    IF keys = <<>> \/ vals = <<>> THEN <<>>
    ELSE DictZip(Tail(keys), Tail(vals)) @@ (Head(keys) :> Head(vals))

\* d[k] = v
DictSet(d, k, v) == (k :> v) @@ d

EmptyDict == <<>>

\* the first exception among a sequence of results, as a sequence of 0 or 1
FirstRaise(rs) == First(rs, {i \in DOMAIN rs : Raised(rs[i])})

\* the first bold cell of a row, as a sequence of 0 or 1 elements
\* (row.find("td", {"class": "font-bold"}))
FindBold(row) == First(row, {i \in DOMAIN row : row[i].font_bold})

\* lines 57-60: the cells normalized
RowData(tds) == List([i \in DOMAIN tds |-> parse_table_cell(tds[i].text)])

\* lines 54-61 once the bold cell is looked up and the cells are normalized:
\* a missing bold cell raises on line 54, a cell that is no number on line 60
RowEntry(bold, years, row_data) ==
    IF bold = <<>> THEN AttributeError
    ELSE IF FirstRaise(row_data) # <<>> THEN FirstRaise(row_data)[1]
    ELSE Return([name |-> bold[1].text, entry |-> DictZip(years, row_data)])

\* parse_table_row with the values read from the fourth cell on (a slip in
\* the slice of line 56)
parse_table_row_OffByOne(row, years) ==
    RowEntry(FindBold(row), years, RowData(Drop(row, 3)))

\* lines 54-61: one row of the table
parse_table_row(row, years) ==
    RowEntry(FindBold(row), years, RowData(Drop(row, 2)))

RECURSIVE parse_table_rows(_, _, _)

\* line 61 and the next iteration, or the exception of the row
AfterRow(r, rest, years, acc) ==
    IF Raised(r) THEN r
    ELSE parse_table_rows(rest, years, DictSet(acc, r.value.name, r.value.entry))

\* lines 53-61: the loop over the rows, from the dict built so far
parse_table_rows(rows, years, acc) ==
    IF rows = <<>> THEN Return(acc)
    ELSE AfterRow(parse_table_row(Head(rows), years), Tail(rows), years, acc)

\* line 51: the years
Years(ths) == List([i \in DOMAIN ths |-> PyInt(ths[i])])

\* lines 51-62 once the th cells are converted
ParseRowsOf(ys, rows) ==
    IF FirstRaise(ys) # <<>> THEN FirstRaise(ys)[1]
    ELSE parse_table_rows(rows, List([i \in DOMAIN ys |-> ys[i].value]), EmptyDict)

\* lines 50-62 once the h2 is looked up: None has no parent
ParseFound(found) ==
    IF found = <<>> THEN AttributeError
    ELSE ParseRowsOf(Years(Drop(found[1].ths, 2)), Drop(found[1].trs, 1))

\* lines 48-62
parse_table(s, sig) == ParseFound(FindH2(s, sig))

-----------------------------------------------------------------------------
(* The section names of get_fundamentals and the pages of the model *)

S_DieAktie == <<"D", "i", "e", " ", "A", "k", "t", "i", "e">>
S_Unternehmenskennzahlen == <<"U", "n", "t", "e", "r", "n", "e", "h", "m", "e", "n", "s", "k", "e", "n", "n", "z", "a", "h", "l", "e", "n">>
S_GuV == <<"G", "u", "V">>
S_Bilanz == <<"B", "i", "l", "a", "n", "z">>
S_sonstigeAngaben == <<"s", "o", "n", "s", "t", "i", "g", "e", " ", "A", "n", "g", "a", "b", "e", "n">>

\* lines 66, 72, 78, 84, 90: the signalers, in the order they are parsed
Signalers == <<S_DieAktie, S_Unternehmenskennzahlen, S_GuV, S_Bilanz, S_sonstigeAngaben>>
\* Categories with the key of line 99 repeated on line 100
Categories_Repeated ==
    <<"Quotes", "Key Ratios", "Income Statement", "Balance Sheet", "Balance Sheet">>

\* lines 95-101: the category each signaler's table is stored under
Categories == <<"Quotes", "Key Ratios", "Income Statement", "Balance Sheet", "Other">>

Td(t) == [text |-> t, font_bold |-> FALSE]
BoldTd(t) == [text |-> t, font_bold |-> TRUE]

T_Umsatz == <<"U", "m", "s", "a", "t", "z">>
T_Gewinn == <<"G", "e", "w", "i", "n", "n">>
T_KGV == <<"K", "G", "V">>
T_Marge == <<"M", "a", "r", "g", "e">>

HeaderRow == <<>>
SampleRows == {
    <<Td(<<>>), BoldTd(T_Umsatz), Td(<<"1", ".", "0", "0", "0">>), Td(<<"1", ".", "2", "0", "0">>)>>,
    <<Td(<<>>), BoldTd(T_Gewinn), Td(Dash), Td(LessThanZero)>>,
    <<Td(<<>>), BoldTd(T_KGV), Td(<<"-", "1", ".", "2", "3", "4", ",", "5", "6">>)>>,
    <<Td(<<>>), Td(T_Umsatz), Td(<<"1">>), Td(<<"2">>)>>,
    <<Td(<<>>), BoldTd(T_Marge), Td(<<"n", "/", "a">>), Td(<<"1", ",", "5">>)>>,
    <<Td(<<>>), BoldTd(T_Umsatz), Td(<<"7">>), Td(<<"8">>)>> }

SampleHeaders == {
    <<<<>>, <<>>, <<"2", "0", "2", "0">>, <<"2", "0", "2", "1">>>>,
    <<<<>>, <<>>, <<"2", "0", "2", "0">>>>,
    <<<<>>, <<>>, <<"2", "0", "2", "0">>, <<"2", "0", "2", "0">>>>,
    <<<<>>, <<>>, <<"2", "0", "2", "0">>, <<"e">>>> }

TableRows == {<<>>} \cup {<<HeaderRow>> \o rs : rs \in SeqsUpTo(SampleRows, MaxRows)}

Box(h, ths, trs) == [h2 |-> h, ths |-> ths, trs |-> trs]

\* a heading that both "Bilanz" and "GuV" match
S_BilanzGuV == <<"B", "i", "l", "a", "n", "z", "/", "G", "u", "V">>
DecoyBox == Box(S_BilanzGuV, <<<<>>, <<>>, <<"2", "0", "1", "9">>>>,
                <<HeaderRow, <<Td(<<>>), BoldTd(T_KGV), Td(<<"3">>)>>>>)

TableBoxes ==
    {Box(h, ths, trs) : h \in {S_GuV, S_Bilanz, S_sonstigeAngaben},
                        ths \in SampleHeaders, trs \in TableRows}

TableSoups ==
    {[marker |-> TRUE, h2s |-> bs] :
        bs \in {<<>>} \cup {<<b>> : b \in TableBoxes}
                      \cup {<<DecoyBox, b>> : b \in TableBoxes}
                      \cup {<<b, DecoyBox>> : b \in TableBoxes}}

-----------------------------------------------------------------------------
(* SpecTable: _parse_table applied to one soup and one signaler *)

InitTable ==
    /\ psoup \in TableSoups
    /\ signaler \in {Signalers[i] : i \in 1..Len(Signalers)}
    /\ table_dict = Pending
    /\ IdleCall /\ IdleNorm /\ IdleSearch

ParseTable ==
    /\ table_dict = Pending
    /\ table_dict' = parse_table(psoup, signaler)
    /\ UNCHANGED <<psoup, signaler, callVars, normVars, searchVars>>

NextTable == ParseTable

SpecTable == InitTable /\ [][NextTable]_vars

-----------------------------------------------------------------------------
(* Claims about _parse_table, checked under SpecTable *)

\* the section _parse_table reads: the first h2 whose text the signaler matches
SectionRead == FindH2(psoup, signaler)[1]
YearLabels == Drop(SectionRead.ths, 2)
YearOf(i) == PyInt(YearLabels[i]).value
DataRows == Drop(SectionRead.trs, 1)
\* the text of the row's first bold cell
RowLabel(row) ==
    row[CHOOSE i \in 1..Len(row) :
            row[i].font_bold /\ \A j \in 1..(i - 1) : ~row[j].font_bold].text
ValueCells(row) == Drop(row, 2)

DistinctLabels ==
    /\ \A i, j \in 1..Len(YearLabels) : i # j => YearOf(i) # YearOf(j)
    /\ \A r, q \in 1..Len(DataRows) : r # q => RowLabel(DataRows[r]) # RowLabel(DataRows[q])

\* C9: in a section that parses, with distinct years and distinct row labels,
\* the result has exactly one entry per row, keyed by the row's bold label; the
\* entry maps the i-th year after the first two header cells to the normalized
\* i-th cell after the row's first two cells, has no other key, and has one key
\* per year when the row has as many value cells as there are years.
C9_RowsKeyedByLabelAndYear ==
    (Returned(table_dict) /\ DistinctLabels) =>
        /\ DOMAIN table_dict.value = {RowLabel(DataRows[r]) : r \in 1..Len(DataRows)}
        /\ \A r \in 1..Len(DataRows) :
            LET entry == table_dict.value[RowLabel(DataRows[r])]
                cells == ValueCells(DataRows[r])
                n == Min(Len(YearLabels), Len(cells))
            IN  /\ DOMAIN entry = {YearOf(i) : i \in 1..n}
                /\ \A i \in 1..n : entry[YearOf(i)] = parse_table_cell(cells[i].text)
                /\ Len(cells) = Len(YearLabels) =>
                       Cardinality(DOMAIN entry) = Len(YearLabels)

\* C9 witness: a section with two years and two rows was parsed, one value a
\* number and one absent.
C9_Witness ==
    /\ Returned(table_dict) /\ DistinctLabels
    /\ Len(YearLabels) = 2 /\ Len(DataRows) = 2
    /\ \E k \in DOMAIN table_dict.value : \E y \in DOMAIN table_dict.value[k] :
           table_dict.value[k][y] = None
    /\ \E k \in DOMAIN table_dict.value : \E y \in DOMAIN table_dict.value[k] :
           table_dict.value[k][y] = Float(1200, 0)

-----------------------------------------------------------------------------
(* The public operations.  Each takes the arguments of the call and the    *)
(* soup the site serves for the URL it requests, and yields the URLs it    *)
(* requested, whether it looked a table or quote box up in the soup, and   *)
(* what it returned or raised.                                             *)

S_dict == <<"d", "i", "c", "t">>
S_dataframe == <<"d", "a", "t", "a", "f", "r", "a", "m", "e">>
S_aktie == <<"-", "a", "k", "t", "i", "e">>

Done(reqs, ex, out) == [requests |-> reqs, extracted |-> ex, outcome |-> out]

\* lines 33, 124 and 183
InvalidOutput == [kind |-> "raise", exc |-> "ValueError", msg |-> "output"]
\* line 180
InvalidExchange == [kind |-> "raise", exc |-> "ValueError", msg |-> "exchange"]
\* lines 45, 136, 193 and 200
NoDataException == Raise("NoDataException")

\* re.sub("-aktie$", "", stock) on a stock that ends with "-aktie": the one
\* match is the suffix at the end of the string
ReSubAktie(stock) == SubSeq(stock, 1, Len(stock) - Len(S_aktie))

\* stock_name without the lower-casing of line 36
stock_name_CaseSensitive(stock) ==
    IF EndsWith(stock, S_aktie) THEN ReSubAktie(stock) ELSE stock

\* lines 36-38 and 127-129
stock_name(stock) ==
    LET low == Lower(stock)
    IN  IF EndsWith(low, S_aktie) THEN ReSubAktie(low) ELSE low

\* finanzen_fundamentals.functions.check_data: the page carries the marker
\* element of a valid stock page
check_data(s) == s.marker

\* lines 67-68: an exception of _parse_table becomes None
OrNone(r) == IF Raised(r) THEN None ELSE PyDict(r.value)

\* lines 65-68 (and 71-74, 77-80, 83-86, 89-92)
try_parse_table(s, sig) == OrNone(parse_table(s, sig))

\* lines 64-101
collect_fundamentals(s) ==
    DictZip(Categories, List([i \in DOMAIN Signalers |-> try_parse_table(s, Signalers[i])]))

\* lines 107-116: the rows of the frame (their order is not modelled);
\* iterating an absent category raises TypeError, and pd.concat raises
\* ValueError when no metric produced a frame
fundamentals_frame(fundamentals) ==
    LET absent == {c \in DOMAIN fundamentals : fundamentals[c] = None}
        present == (DOMAIN fundamentals) \ absent
        df_list == UNION {{<<f, i>> : i \in DOMAIN fundamentals[f].items} : f \in present}
        rows == UNION {{[Category |-> fi[1], Metric |-> fi[2], Year |-> y,
                         Value |-> fundamentals[fi[1]].items[fi[2]][y]] :
                            y \in DOMAIN fundamentals[fi[1]].items[fi[2]]} : fi \in df_list}
    IN  IF absent # {} THEN TypeError
        ELSE IF df_list = {} THEN ValueError
        ELSE Return(DataFrame(rows))

U_bilanz_guv == <<"https://www.finanzen.net/bilanz_guv/">>
U_schaetzungen == <<"https://www.finanzen.net/schaetzungen/">>
U_aktien == <<"https://www.finanzen.net/aktien/">>
U_stBoerse == <<"@stBoerse_">>

\* lines 103-116
fundamentals_result(output, fundamentals) ==
    IF output = S_dict THEN Return(PyDict(fundamentals))
    ELSE fundamentals_frame(fundamentals)

\* get_fundamentals with the check of the output made after the page is loaded
get_fundamentals_LateCheck(stock, output, page) ==
    LET url == U_bilanz_guv \o stock_name(stock)
    IN  IF output \notin {S_dataframe, S_dict} THEN Done(<<url>>, FALSE, InvalidOutput)
        ELSE IF ~check_data(page) THEN Done(<<url>>, FALSE, NoDataException)
        ELSE Done(<<url>>, TRUE, fundamentals_result(output, collect_fundamentals(page)))

\* lines 29-116
get_fundamentals(stock, output, page) ==
    IF output \notin {S_dataframe, S_dict} THEN Done(<<>>, FALSE, InvalidOutput)
    ELSE IF ~check_data(page)
    THEN Done(<<U_bilanz_guv \o stock_name(stock)>>, FALSE, NoDataException)
    ELSE Done(<<U_bilanz_guv \o stock_name(stock)>>, TRUE,
              fundamentals_result(output, collect_fundamentals(page)))

\* the text an h1 must start with (line 140); "ae" stands for a-umlaut
S_Schaetzungen == <<"S", "c", "h", "ae", "t", "z", "u", "n", "g", "e", "n">>

\* lines 145-146: the texts of the row's cells
Fields(row) == List([i \in DOMAIN row |-> row[i].text])

\* lines 149-152: the cells normalized
EstimatesRowData(values) ==
    List([i \in DOMAIN values |-> get_estimates_cell(values[i])])

\* lines 147-153 on the texts of the row's cells: an empty row raises on
\* line 147, a cell that is no number on line 152
EstimatesEntry(fields, years, row_data) ==
    IF fields = <<>> THEN IndexError
    ELSE IF FirstRaise(row_data) # <<>> THEN FirstRaise(row_data)[1]
    ELSE Return([name |-> fields[1], entry |-> DictZip(years, row_data)])

\* lines 145-153: one row of the estimates table
estimates_row(row, years) ==
    EstimatesEntry(Fields(row), years, EstimatesRowData(Drop(Fields(row), 1)))

RECURSIVE estimates_rows(_, _, _)

\* line 153 and the next iteration, or the exception of the row
AfterEstimatesRow(r, rest, years, acc) ==
    IF Raised(r) THEN r
    ELSE estimates_rows(rest, years, DictSet(acc, r.value.name, r.value.entry))

\* lines 144-153: the loop over the rows, from the dict built so far
estimates_rows(rows, years, acc) ==
    IF rows = <<>> THEN Return(acc)
    ELSE AfterEstimatesRow(estimates_row(Head(rows), years), Tail(rows), years, acc)

\* lines 140-153 once the h1 is looked up: None has no parent
EstimatesFound(found) ==
    IF found = <<>> THEN AttributeError
    ELSE estimates_rows(Drop(found[1].trs, 1), Drop(found[1].ths, 1), EmptyDict)

\* lines 139-153
estimates_table(s) ==
    EstimatesFound(First(s.h1s, {i \in DOMAIN s.h1s : StartsWith(s.h1s[i].h1, S_Schaetzungen)}))

\* lines 159-166: the rows of the frame (their order is not modelled);
\* pd.concat raises ValueError when the table has no metric
estimates_frame(td) ==
    LET rows == UNION {{[Metric |-> f, Year |-> y, Value |-> td[f][y]] : y \in DOMAIN td[f]} :
                          f \in DOMAIN td}
    IN  IF DOMAIN td = {} THEN ValueError ELSE Return(DataFrame(rows))

\* lines 139-166: an exception of the table propagates
estimates_result(output, td) ==
    IF Raised(td) THEN td
    ELSE IF output = S_dict THEN Return(PyDict(td.value))
    ELSE estimates_frame(td.value)

\* lines 120-166
get_estimates(stock, output, page) ==
    IF output \notin {S_dataframe, S_dict} THEN Done(<<>>, FALSE, InvalidOutput)
    ELSE IF ~check_data(page)
    THEN Done(<<U_schaetzungen \o stock_name(stock)>>, FALSE, NoDataException)
    ELSE Done(<<U_schaetzungen \o stock_name(stock)>>, TRUE,
              estimates_result(output, estimates_table(page)))

\* finanzen_fundamentals.statics.exchanges: the allow-list of exchange codes
exchanges == {<<"F", "S", "E">>, <<"X", "E", "T", "R", "A">>, <<"T", "G", "T">>, <<"S", "T", "U">>}

\* finanzen_fundamentals.functions.parse_price: the leading run of digits, "."
\* and "," is the price in German notation, the rest the currency code
PriceSplit(price, cut, value) ==
    IF Raised(value) THEN value
    ELSE Return([price_float |-> value, currency |-> Strip(SubSeq(price, cut, Len(price)))])

PriceCut(price, cut) ==
    PriceSplit(price, cut, PyFloat(CommaToDot(RemoveDots(SubSeq(price, 1, cut - 1)))))

parse_price(price) ==
    LET rest == {i \in 1..Len(price) : ~(IsDigit(price[i]) \/ price[i] \in {".", ","})}
    IN  PriceCut(price, IF rest = {} THEN Len(price) + 1
                        ELSE CHOOSE i \in rest : \A j \in rest : i <= j)

\* finanzen_fundamentals.functions.parse_timestamp: a date and a time of day
\* separated by a space parse, anything else raises
parse_timestamp(ts) ==
    LET spaces == {i \in 1..Len(ts) : ts[i] = " "}
    IN  IF Cardinality(spaces) = 1 /\ 1 \notin spaces /\ Len(ts) \notin spaces
        THEN Return([kind |-> "datetime", text |-> ts])
        ELSE ValueError

\* lines 210-224
PriceResult(stock, exchange, output, parsed, timestamp) ==
    IF Raised(timestamp) THEN timestamp
    ELSE IF output = S_dataframe
    THEN Return(DataFrame({PyDict([Price |-> parsed.value.price_float,
                                   Currency |-> parsed.value.currency,
                                   Timestamp |-> timestamp.value,
                                   Stock |-> stock,
                                   Exchange |-> exchange])}))
    ELSE Return(PyDict([Price |-> parsed.value.price_float,
                        Currency |-> parsed.value.currency,
                        Timestamp |-> timestamp.value,
                        Stock |-> stock,
                        Exchange |-> exchange]))

\* lines 206-224 once the price is parsed: a missing snapshot__time div, a
\* missing time element and a missing datetime attribute raise on line 207
PriceTimestamp(stock, exchange, output, snapshot_time, parsed) ==
    IF Raised(parsed) THEN parsed
    ELSE IF snapshot_time = <<>> THEN AttributeError
    ELSE IF snapshot_time[1].time = <<>> THEN TypeError
    ELSE IF snapshot_time[1].time[1].datetime = <<>> THEN Raise("KeyError")
    ELSE PriceResult(stock, exchange, output, parsed,
                     parse_timestamp(snapshot_time[1].time[1].datetime[1]))

\* lines 202-224: the price record, from a valid page with a quote box; a
\* missing snapshot__value-current span raises on line 203
price_record(stock, exchange, output, page) ==
    IF page.snapshot_values[1].current = <<>> THEN AttributeError
    ELSE PriceTimestamp(stock, exchange, output, page.snapshot_time,
                        parse_price(page.snapshot_values[1].current[1]))

\* get_price with the page loaded before the arguments are checked
get_price_FetchFirst(stock_arg, exchange_arg, output_arg, page) ==
    LET output == Lower(output_arg)
        stock == Lower(stock_arg)
        exchange == Upper(exchange_arg)
        url == U_aktien \o stock \o U_stBoerse \o exchange
    IN  IF exchange \notin exchanges THEN Done(<<url>>, FALSE, InvalidExchange)
        ELSE IF output \notin {S_dict, S_dataframe} THEN Done(<<url>>, FALSE, InvalidOutput)
        ELSE IF ~check_data(page) THEN Done(<<url>>, FALSE, NoDataException)
        ELSE IF page.snapshot_values = <<>> THEN Done(<<url>>, TRUE, NoDataException)
        ELSE Done(<<url>>, TRUE, price_record(stock, exchange, output, page))

\* get_price without the test for a missing quote box of lines 199-200
get_price_NoQuoteboxTest(stock_arg, exchange_arg, output_arg, page) ==
    LET output == Lower(output_arg)
        stock == Lower(stock_arg)
        exchange == Upper(exchange_arg)
        url == U_aktien \o stock \o U_stBoerse \o exchange
    IN  IF exchange \notin exchanges THEN Done(<<>>, FALSE, InvalidExchange)
        ELSE IF output \notin {S_dict, S_dataframe} THEN Done(<<>>, FALSE, InvalidOutput)
        ELSE IF ~check_data(page) THEN Done(<<url>>, FALSE, NoDataException)
        ELSE IF page.snapshot_values = <<>> THEN Done(<<url>>, TRUE, AttributeError)
        ELSE Done(<<url>>, TRUE, price_record(stock, exchange, output, page))

\* lines 170-224
get_price(stock_arg, exchange_arg, output_arg, page) ==
    LET output == Lower(output_arg)
        stock == Lower(stock_arg)
        exchange == Upper(exchange_arg)
        url == U_aktien \o stock \o U_stBoerse \o exchange
    IN  IF exchange \notin exchanges THEN Done(<<>>, FALSE, InvalidExchange)
        ELSE IF output \notin {S_dict, S_dataframe} THEN Done(<<>>, FALSE, InvalidOutput)
        ELSE IF ~check_data(page) THEN Done(<<url>>, FALSE, NoDataException)
        ELSE IF page.snapshot_values = <<>> THEN Done(<<url>>, TRUE, NoDataException)
        ELSE Done(<<url>>, TRUE, price_record(stock, exchange, output, page))

-----------------------------------------------------------------------------
(* The arguments and the pages of the calls *)

StockPrefixes == {<<"b", "m", "w">>, <<"S", "A", "P">>}
StockSuffixes == {<<>>, <<"-", "a", "k", "t", "i", "e">>, <<"-", "A", "K", "T", "I", "E">>, <<"-", "A", "k", "t", "i", "e">>, <<"-", "a", "k", "t", "i", "e", "-", "a", "k", "t", "i", "e">>, <<"-", "a", "k", "t", "i", "e", "-", "x">>}
Stocks == {p \o x : p \in StockPrefixes, x \in StockSuffixes}

Outputs == {S_dict, S_dataframe, <<"D", "I", "C", "T">>, <<"D", "a", "t", "a", "F", "r", "a", "m", "e">>, <<"j", "s", "o", "n">>, <<>>}
ExchangeArgs == {<<"F", "S", "E">>, <<"f", "s", "e">>, <<"X", "e", "t", "r", "a">>, <<"T", "G", "T">>, <<"N", "Y", "S", "E">>, <<"F", "S">>, <<>>}

Page(marker, h2s, h1s, values, time) ==
    [marker |-> marker, h2s |-> h2s, h1s |-> h1s,
     snapshot_values |-> values, snapshot_time |-> time]

TwoYears == <<<<>>, <<>>, <<"2", "0", "2", "0">>, <<"2", "0", "2", "1">>>>

\* the box of section i of a fundamentals page: a table with one row whose
\* first value is i, a table whose row has no bold cell, a table without
\* rows, or no box
SectionBox(i, choice) ==
    CASE choice = "good" ->
            <<Box(Signalers[i], TwoYears,
                  <<HeaderRow, <<Td(<<>>), BoldTd(T_Umsatz), Td(<<DigitChar(i)>>), Td(Dash)>>>>)>>
      [] choice = "bad" ->
            <<Box(Signalers[i], TwoYears,
                  <<HeaderRow, <<Td(<<>>), Td(T_Umsatz), Td(<<DigitChar(i)>>), Td(Dash)>>>>)>>
      [] choice = "empty" -> <<Box(Signalers[i], TwoYears, <<HeaderRow>>)>>
      [] choice = "absent" -> <<>>

SectionChoices == [1..Len(Signalers) -> {"good", "bad", "empty", "absent"}]

FundamentalsPage(marker, ch) ==
    Page(marker,
         SectionBox(1, ch[1]) \o SectionBox(2, ch[2]) \o SectionBox(3, ch[3])
             \o SectionBox(4, ch[4]) \o SectionBox(5, ch[5]),
         <<>>, <<>>, <<>>)

FundamentalsPages ==
    {FundamentalsPage(TRUE, ch) : ch \in SectionChoices}
        \cup {FundamentalsPage(FALSE, [i \in 1..Len(Signalers) |-> "good"])}

EstimatesRows == {
    <<Td(T_Umsatz), Td(<<"1", ".", "0", "0", "0">>), Td(Dash)>>,
    <<Td(T_Gewinn), Td(<<"-", "1", ",", "5">>), Td(LessThanZero)>>,
    <<Td(T_KGV), Td(<<"n", "/", "a">>)>>,
    <<>> }

EstimatesHeadings == {S_Schaetzungen \o <<" ", "z", "u", " ", "B", "M", "W">>, <<"A", "l", "l", "e", " ">> \o S_Schaetzungen}

EstimatesBoxes ==
    {[h1 |-> h, ths |-> <<<<>>, <<"2", "0", "2", "4">>, <<"2", "0", "2", "5", "e">>>>, trs |-> <<HeaderRow>> \o rs] :
        h \in EstimatesHeadings, rs \in SeqsUpTo(EstimatesRows, MaxRows)}

EstimatesPages ==
    {Page(TRUE, <<>>, <<b>>, <<>>, <<>>) : b \in EstimatesBoxes}
        \cup {Page(m, <<>>, <<>>, <<>>, <<>>) : m \in BOOLEAN}

QuoteBoxes == {<<>>, <<[current |-> <<>>]>>, <<[current |-> <<<<"8", "5", ",", "3", "0", " ", "E", "U", "R">>>>]>>,
               <<[current |-> <<<<"E", "U", "R">>>>]>>}
SnapshotTimes == {<<>>, <<[time |-> <<>>]>>, <<[time |-> <<[datetime |-> <<>>]>>]>>,
                  <<[time |-> <<[datetime |-> <<<<"2", "0", "2", "4", "-", "0", "1", "-", "0", "2", " ", "1", "0", ":", "0", "0">>>>]>>]>>,
                  <<[time |-> <<[datetime |-> <<<<"h", "e", "u", "t", "e">>>>]>>]>>}

PricePages ==
    {Page(TRUE, <<>>, <<>>, q, t) : q \in QuoteBoxes, t \in SnapshotTimes}
        \cup {Page(FALSE, <<>>, <<>>, <<>>, <<>>)}

-----------------------------------------------------------------------------
(* Spec: one call of a public operation *)

Init == IdleCall /\ IdleNorm /\ IdleTable /\ IdleSearch

Finish(c, page, r) ==
    /\ call' = c
    /\ soup' = IF r.requests = <<>> THEN None ELSE page
    /\ requests' = r.requests
    /\ extracted' = r.extracted
    /\ outcome' = r.outcome
    /\ UNCHANGED <<normVars, tableVars, searchVars>>

GetFundamentals ==
    /\ call = None
    /\ \E stock \in Stocks, output \in Outputs, page \in FundamentalsPages :
           Finish([kind |-> "call", op |-> "get_fundamentals", stock |-> stock, exchange |-> <<>>,
                   output |-> output],
                  page, get_fundamentals(stock, output, page))

GetEstimates ==
    /\ call = None
    /\ \E stock \in Stocks, output \in Outputs, page \in EstimatesPages :
           Finish([kind |-> "call", op |-> "get_estimates", stock |-> stock, exchange |-> <<>>,
                   output |-> output],
                  page, get_estimates(stock, output, page))

GetPrice ==
    /\ call = None
    /\ \E stock \in Stocks, exchange \in ExchangeArgs, output \in Outputs,
          page \in PricePages :
           Finish([kind |-> "call", op |-> "get_price", stock |-> stock, exchange |-> exchange,
                   output |-> output],
                  page, get_price(stock, exchange, output, page))

Next == GetFundamentals \/ GetEstimates \/ GetPrice

Spec == Init /\ [][Next]_vars

-----------------------------------------------------------------------------
(* Claims about the public operations, checked under Spec *)

Called(op) == call.kind = "call" /\ call.op = op
Fetched == soup # None
ValidOutputs == {S_dict, S_dataframe}
CategoryNames == {"Quotes", "Key Ratios", "Income Statement", "Balance Sheet", "Other"}

\* C1: get_price with an exchange whose upper-cased form is not in the
\* allow-list raises the invalid-exchange ValueError and has requested no URL,
\* whatever the stock and the output are.
C1_InvalidExchangeBeforeRequest ==
    (Called("get_price") /\ Upper(call.exchange) \notin exchanges) =>
        /\ outcome = InvalidExchange
        /\ requests = <<>>

\* C1 witness: get_price was called with exchange "NYSE" and output "json".
C1_Witness ==
    /\ Called("get_price")
    /\ call.exchange = <<"N", "Y", "S", "E">>
    /\ call.output = <<"j", "s", "o", "n">>
    /\ outcome = InvalidExchange

\* C3 (as claimed): get_fundamentals on a valid page returns for output "dict"
\* and for output "dataframe" alike, also when a section is missing or fails
\* to parse; with "dict", a section that did not parse is None and every other
\* section holds its parsed table.
C3_MissingSectionNeverAborts ==
    (Called("get_fundamentals") /\ call.output \in ValidOutputs /\ Fetched /\ soup.marker) =>
        /\ Returned(outcome)
        /\ call.output = S_dict =>
             \A i \in 1..Len(Signalers) :
                 LET r == parse_table(soup, Signalers[i])
                 IN  outcome.value.items[Categories[i]] =
                         IF Raised(r) THEN None ELSE PyDict(r.value)

\* C3, the part that holds: the same for output "dict" alone.
C3_DictPart ==
    (Called("get_fundamentals") /\ call.output = S_dict /\ Fetched /\ soup.marker) =>
        /\ Returned(outcome)
        /\ \A i \in 1..Len(Signalers) :
               LET r == parse_table(soup, Signalers[i])
               IN  outcome.value.items[Categories[i]] =
                       IF Raised(r) THEN None ELSE PyDict(r.value)

\* the stock name the claim expects in the URL: the lower-cased identifier,
\* without the suffix when the identifier ends in "-aktie" in any letter case
SuffixAt(stock) ==
    {n \in 0..Len(stock) : Lower(SubSeq(stock, n + 1, Len(stock))) = S_aktie}
NameMatches(stock, name) ==
    /\ \A n \in SuffixAt(stock) : name = Lower(SubSeq(stock, 1, n))
    /\ SuffixAt(stock) = {} => name = Lower(stock)
\* the part of the requested URL between the path and "@stBoerse_"
RequestedName ==
    IF Called("get_price")
    THEN SubSeq(requests[1], 2, Len(requests[1]) - 1 - Len(Upper(call.exchange)))
    ELSE Tail(requests[1])
RequestedPath == requests[1][1]

\* C4 (as claimed): every operation that requests a URL puts the lower-cased
\* stock identifier into it, with a trailing "-aktie" removed.
C4_SuffixStrippedEverywhere ==
    (call.kind = "call" /\ requests # <<>>) => NameMatches(call.stock, RequestedName)

\* C4 (amended): get_fundamentals and get_estimates request the URL of the
\* lower-cased identifier with a trailing "-aktie" removed; get_price requests
\* the URL of the lower-cased identifier with the suffix kept.
C4_SuffixStrippedExceptPrice ==
    /\ (Called("get_fundamentals") /\ requests # <<>>) =>
           /\ Len(requests) = 1 /\ <<RequestedPath>> = U_bilanz_guv
           /\ NameMatches(call.stock, RequestedName)
    /\ (Called("get_estimates") /\ requests # <<>>) =>
           /\ Len(requests) = 1 /\ <<RequestedPath>> = U_schaetzungen
           /\ NameMatches(call.stock, RequestedName)
    /\ (Called("get_price") /\ requests # <<>>) =>
           requests = <<U_aktien \o Lower(call.stock) \o U_stBoerse \o Upper(call.exchange)>>

\* C4 witness: get_price was called for "SAP-Aktie" and requested a URL.
C4_Witness ==
    /\ Called("get_price")
    /\ call.stock = <<"S", "A", "P", "-", "A", "k", "t", "i", "e">>
    /\ requests # <<>>

\* C4 second witness: get_fundamentals was called for "bmw-AKTIE" and requested
\* the URL of "bmw".
C4_WitnessFundamentals ==
    /\ Called("get_fundamentals")
    /\ call.stock = <<"b", "m", "w", "-", "A", "K", "T", "I", "E">>
    /\ requests = <<U_bilanz_guv \o <<"b", "m", "w">>>>

ExchangeAccepted == Called("get_price") => Upper(call.exchange) \in exchanges

\* C5 (as claimed): with otherwise valid arguments, an output that is neither
\* "dict" nor "dataframe" makes each operation raise the invalid-output
\* ValueError before it requests a URL.
C5_InvalidOutputRejectedEverywhere ==
    (call.kind = "call" /\ ExchangeAccepted /\ call.output \notin ValidOutputs) =>
        /\ outcome = InvalidOutput
        /\ requests = <<>>

\* C5 (amended): get_fundamentals and get_estimates do so for every output
\* that is neither "dict" nor "dataframe"; get_price lower-cases the output
\* first and does so for every output whose lower-cased form is neither.
C5_InvalidOutputRejected ==
    /\ ((Called("get_fundamentals") \/ Called("get_estimates"))
            /\ call.output \notin ValidOutputs) =>
           outcome = InvalidOutput /\ requests = <<>>
    /\ (Called("get_price") /\ ExchangeAccepted /\ Lower(call.output) \notin ValidOutputs) =>
           outcome = InvalidOutput /\ requests = <<>>

\* C5 witness: get_price was called with a valid exchange and output "json".
C5_Witness ==
    /\ Called("get_price")
    /\ Upper(call.exchange) \in exchanges
    /\ call.output = <<"j", "s", "o", "n">>
    /\ outcome = InvalidOutput

ArgumentsValid ==
    /\ call.kind = "call"
    /\ IF call.op = "get_price"
       THEN Upper(call.exchange) \in exchanges /\ Lower(call.output) \in ValidOutputs
       ELSE call.output \in ValidOutputs

\* C6: with valid arguments and a page without the marker of a valid stock
\* page, each operation requests its URL, raises NoDataException and looks
\* nothing up in the page; get_price also raises NoDataException on a valid
\* page without a quote box.
C6_NoDataOnInvalidPage ==
    /\ (ArgumentsValid /\ Fetched /\ ~soup.marker) =>
           outcome = NoDataException /\ ~extracted
    /\ (ArgumentsValid /\ Called("get_price") /\ Fetched /\ soup.marker
            /\ soup.snapshot_values = <<>>) =>
           outcome = NoDataException

\* C6 witness: get_price got a valid page without a quote box.
C6_Witness ==
    /\ Called("get_price") /\ ArgumentsValid /\ Fetched
    /\ soup.marker /\ soup.snapshot_values = <<>>
    /\ outcome = NoDataException

\* C6 second witness: get_estimates got a page without the marker.
C6_WitnessNoMarker ==
    /\ Called("get_estimates") /\ ArgumentsValid /\ Fetched /\ ~soup.marker
    /\ outcome = NoDataException

IsTableDict(v) ==
    /\ v.kind = "dict"
    /\ \A metric \in DOMAIN v.items : \A year \in DOMAIN v.items[metric] :
           /\ year \in Int
           /\ v.items[metric][year].kind \in {"None", "float"}

\* C7: get_fundamentals with output "dict" on a valid page returns a dict with
\* exactly the five category keys, each value None or a dict from metric to
\* year to value, whichever sections are present, missing or malformed.
C7_FiveCategories ==
    (Called("get_fundamentals") /\ call.output = S_dict /\ Fetched /\ soup.marker) =>
        /\ Returned(outcome)
        /\ outcome.value.kind = "dict"
        /\ DOMAIN outcome.value.items = CategoryNames
        /\ \A c \in CategoryNames :
               outcome.value.items[c] = None \/ IsTableDict(outcome.value.items[c])

\* C7 witness: a page with three h2 sections, one of them malformed, gave a
\* dict with an absent and a parsed category.
C7_Witness ==
    /\ Called("get_fundamentals") /\ call.output = S_dict /\ Fetched /\ soup.marker
    /\ Len(soup.h2s) = 3
    /\ Returned(outcome)
    /\ outcome.value.items["Income Statement"] = None
    /\ Raised(parse_table_rows(Drop(FindH2(soup, S_GuV)[1].trs, 1), <<2020, 2021>>, EmptyDict))
    /\ outcome.value.items["Other"] # None
    /\ outcome.value.items["Other"].items # EmptyDict

-----------------------------------------------------------------------------
(* search_stock_lxml.  A row of the result table carries the joined texts   *)
(* of its links, the joined href attributes of its links and the texts of   *)
(* its td cells.                                                            *)

\* s.replace(old, ""), old not empty
RECURSIVE RemoveAll(_, _)
RemoveAll(s, old) ==
    IF Len(s) < Len(old) THEN s
    ELSE IF SubSeq(s, 1, Len(old)) = old THEN RemoveAll(Drop(s, Len(old)), old)
    ELSE <<Head(s)>> \o RemoveAll(Tail(s), old)

S_aktien_path == <<"/", "a", "k", "t", "i", "e", "n", "/">>

\* lines 465-470: the fields read from one row
search_row_fields(row) ==
    IF Len(row.tds) < 3 THEN IndexError
    ELSE Return([name |-> Strip(row.a_text),
                 fn_stock_name |-> RemoveAll(RemoveAll(Strip(row.href), S_aktien_path), S_aktie),
                 isin |-> Strip(row.tds[2]),
                 wkn |-> Strip(row.tds[3])])

Step(lim, frame, ctl) == [limit |-> lim, df |-> frame, ctl |-> ctl]

\* search_row_step without the decrement of line 475
search_row_step_NoDecrement(fields, lim, frame) ==
    IF lim = 0 THEN Step(lim, frame, "break")
    ELSE IF lim > 0 THEN Step(lim, Append(frame, fields), "continue")
    ELSE Step(lim, Append(frame, fields), "continue")

\* lines 472-478: what one row does to limit and df
search_row_step(fields, lim, frame) ==
    IF lim = 0 THEN Step(lim, frame, "break")
    ELSE IF lim > 0 THEN Step(lim - 1, Append(frame, fields), "continue")
    ELSE Step(lim, Append(frame, fields), "continue")

U_base == <<"https://www.finanzen.net">>
U_search == <<"/suchergebnis.asp?_search=">>

SearchRowSamples == {
    [a_text |-> <<" ", "B", "M", "W", " ">>, href |-> <<"/", "a", "k", "t", "i", "e", "n", "/", "b", "m", "w", "-", "a", "k", "t", "i", "e">>, tds |-> <<<<>>, <<"D", "E", "5">>, <<"5", "1", "9">>>>],
    [a_text |-> <<"S", "A", "P">>, href |-> <<"/", "a", "k", "t", "i", "e", "n", "/", "s", "a", "p", "-", "a", "k", "t", "i", "e">>, tds |-> <<<<>>, <<"D", "E", "7">>, <<"7", "1", "6", " ">>>>],
    [a_text |-> <<"V", "W">>, href |-> <<"/", "a", "k", "t", "i", "e", "n", "/", "v", "w", "-", "a", "k", "t", "i", "e">>, tds |-> <<<<>>>>] }

FirstSearchRow == [a_text |-> <<>>, href |-> <<>>, tds |-> <<>>]

SearchTables ==
    {<<>>} \cup {<<FirstSearchRow>> \o rs : rs \in SeqsUpTo(SearchRowSamples, MaxSearchRows)}

Limits == (-1)..MaxLimit

InitSearch == IdleCall /\ IdleNorm /\ IdleTable /\ IdleSearch

\* lines 445-458, with get_parser (lines 246-268) and check_site_availability
\* (lines 239-243): the site is requested, then the search page
SearchStart ==
    /\ spc = "idle"
    /\ \E stock \in {<<"b", "m", "w">>, <<"S", "A", "P", "-", "A", "k", "t", "i", "e">>}, lim \in Limits, rows \in SearchTables,
          site_up \in BOOLEAN :
        /\ call' = [kind |-> "call", op |-> "search_stock_lxml", stock |-> stock, limit |-> lim]
        /\ limit0' = lim
        /\ limit' = lim
        /\ df' = <<>>
        /\ skip_first_element' = 0
        /\ pos' = 1
        /\ IF ~site_up
           THEN /\ requests' = <<U_base>>
                /\ summary_table' = <<>>
                /\ outcome' = Raise("SystemExit")
                /\ spc' = "raised"
           ELSE /\ requests' = <<U_base, U_base \o U_search \o stock>>
                /\ summary_table' = rows
                /\ IF Len(rows) = 0
                   THEN outcome' = ValueError /\ spc' = "raised"
                   ELSE outcome' = Pending /\ spc' = "loop"
    /\ UNCHANGED <<soup, extracted, normVars, tableVars>>

\* lines 460-478: one iteration of the loop
SearchRow ==
    /\ spc = "loop"
    /\ pos <= Len(summary_table)
    /\ LET fields == search_row_fields(summary_table[pos])
           step == search_row_step(fields.value, limit, df)
       IN  IF skip_first_element = 0
           THEN /\ skip_first_element' = 1
                /\ pos' = pos + 1
                /\ UNCHANGED <<limit, df, spc, outcome>>
           ELSE IF Raised(fields)
           THEN /\ outcome' = fields
                /\ spc' = "raised"
                /\ UNCHANGED <<limit, df, pos, skip_first_element>>
           ELSE /\ limit' = step.limit
                /\ df' = step.df
                /\ IF step.ctl = "break"
                   THEN /\ outcome' = Return(DataFrame(df'))
                        /\ spc' = "returned"
                        /\ pos' = pos
                   ELSE /\ pos' = pos + 1
                        /\ UNCHANGED <<outcome, spc>>
                /\ UNCHANGED skip_first_element
    /\ UNCHANGED <<call, soup, requests, extracted, summary_table, limit0,
                   normVars, tableVars>>

\* line 480, after the last row
SearchReturn ==
    /\ spc = "loop"
    /\ pos > Len(summary_table)
    /\ outcome' = Return(DataFrame(df))
    /\ spc' = "returned"
    /\ UNCHANGED <<call, soup, requests, extracted, summary_table, limit0, limit,
                   df, pos, skip_first_element, normVars, tableVars>>

NextSearch == SearchStart \/ SearchRow \/ SearchReturn

SpecSearch == InitSearch /\ [][NextSearch]_vars

-----------------------------------------------------------------------------
(* Claims about search_stock_lxml, checked under SpecSearch *)

SearchDataRows == Drop(summary_table, 1)
RowsWanted ==
    IF limit0 < 0 THEN Len(SearchDataRows) ELSE Min(limit0, Len(SearchDataRows))
FieldsOf(row) == search_row_fields(row).value

=============================================================================
